---------------------------- MODULE Spec2Model ----------------------------
(***************************************************************************)
(* A model of the detection engine of apt-defender-system/pi-agent:        *)
(*   detection/beaconing.py    BeaconingDetector                           *)
(*   detection/hash_scanner.py HashScanner (scan_file, scan_directory)     *)
(*   detection/yara_engine.py  YaraEngine                                  *)
(*   api/auth.py               pair_device, generate_pairing_code          *)
(*                                                                         *)
(* Numbers.  The detector works on floats (numpy mean and std).  The model *)
(* keeps timestamps as whole seconds and every derived quantity as an      *)
(* exact rational [num, den]:                                              *)
(*   avg_interval   = S / n             S = sum of the deltas, n = count   *)
(*   jitter_percent = sqrt(n*Q - S*S)/S Q = sum of the squared deltas      *)
(* The square root is never taken: the model stores jitter squared         *)
(* (field jitter_sq) and compares it with the square of a threshold.       *)
(* Float rounding exactly at a threshold is not modelled.                  *)
(***************************************************************************)
EXTENDS Integers, Sequences, FiniteSets, TLC

VARIABLES
    min_connections,      \* BeaconingDetector.min_connections
    max_jitter_percent,   \* BeaconingDetector.max_jitter_percent, a rational
    connections,          \* the list handed to analyze_connections
    detections,           \* the list analyze_connections returned
    analyzed,             \* TRUE when detections is the result for connections
    vt_api_key,           \* HashScanner.vt_api_key
    known_malware_hashes, \* HashScanner.known_malware_hashes
    scans,                \* the scan_file calls: one record per caller
    rules_dir,            \* the YARA rules directory on disk
    engines,              \* the YaraEngine objects: compiled_rules and load_rules position
    yara_scans,           \* the YaraEngine scan calls: one record per caller
    dir_scan,             \* the scan_directory call of the HashScanner
    pairing_tokens,       \* the rows of table pairing_tokens, committed
    devices,              \* the rows of table devices, committed
    pair_requests,        \* the pair_device requests: one record per request
    utcnow                \* datetime.utcnow(), in expiry periods

beaconVars == <<min_connections, max_jitter_percent, connections, detections, analyzed>>

hashVars == <<vt_api_key, known_malware_hashes, scans>>

yaraVars == <<rules_dir, engines, yara_scans>>

dirVars == <<dir_scan>>

pairVars == <<pairing_tokens, devices, pair_requests, utcnow>>

vars == <<beaconVars, hashVars, yaraVars, dirVars, pairVars>>

----------------------------------------------------------------------------
(* Bounds and input domains                                                *)

\* How many single records the environment appends to a window.
MaxSingles == 2

None == "None"

\* How many pairing codes are generated, and how far the clock runs.
MaxTokens == 1
MaxClock == 2

\* How deep the model follows load_rules calling itself through
\* _create_default_rules.
MaxDepth == 3

\* How many records a window built from runs may hold.
MaxWindow == 20

\* (dst_ip, process_name) pairs of the records; a record without a dst_ip
\* field reads as None (conn.get).
ConnKeys == { <<"203.0.113.7", "svc.exe">>,
              <<"203.0.113.7", "curl.exe">>,
              <<None, "svc.exe">> }

\* Timestamps (seconds) of the single records.
Timestamps == {0, 1, 60, 115, 120}

\* A periodic run: BeaconSizes records of the pair BeaconKey, the first at
\* BeaconStart, one every step seconds.
BeaconKey == <<"203.0.113.7", "svc.exe">>
BeaconSizes == {2, 9, 20, 50}
BeaconSteps == {1, 60}
BeaconStart == 3 * 60

\* The concurrent callers of HashScanner.scan_file.
ScanIds == {1, 2}

\* A caller's record while it has no call in progress: no result and no
\* remote answer yet.
NoResult == [pending |-> TRUE]
NoAnswer == [none |-> TRUE]

IdleScan ==
    [ pc |-> "idle", file_path |-> None, file_hash |-> "", answer |-> NoAnswer,
      result |-> NoResult, local_lookups |-> 0, remote_calls |-> 0 ]

\* A scan_directory call: its arguments, the paths rglob has still to
\* yield, the path whose scan_file it awaits, and its results list.
NoExtensions == [given |-> FALSE, list |-> <<>>]

IdleDirScan ==
    [ pc |-> "idle", directory |-> None, extensions |-> NoExtensions, todo |-> <<>>,
      current |-> None, results |-> <<>> ]

\* A NULL column and a column holding a time.
Null == <<>>
At(t) == <<t>>

\* The pair_device requests, and a request that has not arrived: entry is
\* the index of the row token_entry refers to, now the time of the expiry
\* test, device what the session will
\* write to table devices, used_at the time it will write to the token.
PairRequests == {1, 2}
NoDeviceChange == [op |-> "none", row |-> 0]
NoPairRequest ==
    [ pc |-> "idle", pairing_token |-> None, device_hostname |-> None, entry |-> 0,
      now |-> Null, device |-> NoDeviceChange, used_at |-> Null, status_code |-> 0, detail |-> None ]

Rat(a, b) == [num |-> a, den |-> b]

\* The YaraEngine objects of the process and the concurrent callers of
\* their scan methods.
Engines == {1, 2}
YaraScanIds == {1}

\* self.compiled_rules before any successful compile.
NoRules == [loaded |-> FALSE, rules |-> <<>>]

\* A rules directory that does not exist.
MissingDir == [exists |-> FALSE, files |-> {}, writers |-> {}]

\* An engine not constructed yet, and a caller with no call in progress.
\* listed is what the glob of the running load_rules returned, rule_files
\* the dict built from it, log the last line it logged; first_read and
\* last_read are the values of self.compiled_rules the call has read; depth
\* is the number of load_rules frames under the running one.
NoEngine ==
    [ pc |-> "unborn", constructed |-> FALSE, compiled_rules |-> NoRules,
      listed |-> {}, rule_files |-> {}, wrote_defaults |-> FALSE, log |-> "",
      depth |-> 0 ]

IdleYaraScan ==
    [ pc |-> "idle", op |-> None, engine |-> 0, target |-> None,
      first_read |-> NoRules, last_read |-> NoRules, result |-> NoResult ]

\* Constructor arguments the model explores; 10 and 0.05 are the defaults.
DefaultMinConnections == 10
DefaultMaxJitter == Rat(1, 20)
MinConnectionsChoices == {2, DefaultMinConnections}
MaxJitterChoices == {Rat(0, 1), DefaultMaxJitter, Rat(1, 2)}

----------------------------------------------------------------------------
(* Sequences of integers                                                   *)

\* The sum of f[lo..hi], by halves.
RECURSIVE SumRange(_, _, _)
SumRange(f, lo, hi) ==
    IF lo > hi THEN 0
    ELSE IF lo = hi THEN f[lo]
    ELSE LET mid == (lo + hi) \div 2
         IN  SumRange(f, lo, mid) + SumRange(f, mid + 1, hi)

SumSeq(s) == SumRange(s, 1, Len(s))

SumSq(s) == SumRange([i \in 1..Len(s) |-> s[i] * s[i]], 1, Len(s))

\* sorted(s), ascending.
Sorted(s) ==
    LET Before(a, b) == a < b
    IN  SortSeq(s, Before)

\* jitter < thr, for jitter*jitter = jsq and a rational thr >= 0:
\* jsq.num * thr.den^2 < thr.num^2 * jsq.den, computed without the large product.
JitterBelow(jsq, thr) ==
    /\ thr.num > 0
    /\ jsq.num <= ((thr.num * thr.num * jsq.den) - 1) \div (thr.den * thr.den)

----------------------------------------------------------------------------
(* BeaconingDetector                                                       *)

ConnKey(conn) == <<conn.dst_ip, conn.process_name>>

\* The keys of grouped, in the order the loop first meets them (a dict keeps
\* insertion order).
GroupOrder(conns) ==
    LET keys == {ConnKey(conns[i]) : i \in 1..Len(conns)}
        first == [k \in keys |->
                    CHOOSE i \in 1..Len(conns) :
                        /\ ConnKey(conns[i]) = k
                        /\ \A j \in 1..(i - 1) : ConnKey(conns[j]) # k]
        place == [k \in keys |-> Cardinality({k2 \in keys : first[k2] <= first[k]})]
    IN  [p \in 1..Cardinality(keys) |-> CHOOSE k \in keys : place[k] = p]

\* Mutant: the records are grouped by destination address alone.
GroupTimestamps_ByAddress(conns, key) ==
    LET OfKey(conn) == conn.dst_ip = key[1]
        mine == SelectSeq(conns, OfKey)
    IN  [i \in 1..Len(mine) |-> mine[i].timestamp]

\* grouped[key]: the timestamps of the key's records, in input order.
GroupTimestamps(conns, key) ==
    LET OfKey(conn) == ConnKey(conn) = key
        mine == SelectSeq(conns, OfKey)
    IN  [i \in 1..Len(mine) |-> mine[i].timestamp]

\* The deltas between consecutive sorted timestamps.
Intervals(sorted_times) ==
    [i \in 1..(Len(sorted_times) - 1) |-> sorted_times[i + 1] - sorted_times[i]]

\* np.mean(intervals) = S / n
np_mean(intervals) == Rat(SumSeq(intervals), Len(intervals))

\* np.std(intervals) squared: the mean of (d - mean)^2, which is
\* (sum of (n*d - S)^2) / n^3.
np_std_sq(intervals) ==
    LET n == Len(intervals)
        S == SumSeq(intervals)
        dev == [i \in 1..n |-> (n * intervals[i] - S) * (n * intervals[i] - S)]
    IN  Rat(SumSeq(dev), n * n * n)

\* Mutant: a group whose mean interval is zero gets jitter 0.
JitterSq_ZeroWhenStill(std_sq, avg) ==
    IF avg.num > 0 THEN Rat(std_sq.num, avg.den * avg.num * avg.num) ELSE Rat(0, 1)

\* (std / avg)^2 for avg = S / n: the n's cancel to std_sq.num / (n * S^2).
JitterSq(std_sq, avg) ==
    IF avg.num > 0 THEN Rat(std_sq.num, avg.den * avg.num * avg.num) ELSE Rat(1, 1)

\* Mutant: the interval test admits an average of exactly 1.0 second.
IsBeaconing_AtLeastOne(jitter_sq, avg, max_jitter) ==
    JitterBelow(jitter_sq, max_jitter) /\ avg.num >= avg.den

\* jitter < self.max_jitter_percent and avg_interval > 1.0
IsBeaconing(jitter_sq, avg, max_jitter) ==
    JitterBelow(jitter_sq, max_jitter) /\ avg.num > avg.den

\* Mutant: the record that arrived first is left out of the timing.
analyze_timing_pattern_SkipFirstArrival(timestamps, max_jitter) ==
    IF Len(timestamps) < 3 THEN [is_beaconing |-> FALSE]
    ELSE LET intervals == Intervals(Sorted(Tail(timestamps)))
             avg_interval == np_mean(intervals)
             std_interval_sq == np_std_sq(intervals)
             jitter_sq == JitterSq(std_interval_sq, avg_interval)
         IN  [ is_beaconing |-> IsBeaconing(jitter_sq, avg_interval, max_jitter),
               avg_interval |-> avg_interval,
               std_interval_sq |-> std_interval_sq,
               jitter_sq |-> jitter_sq,
               connection_count |-> Len(timestamps) ]

analyze_timing_pattern(timestamps, max_jitter) ==
    IF Len(timestamps) < 2 THEN [is_beaconing |-> FALSE]
    ELSE LET intervals == Intervals(Sorted(timestamps))
             avg_interval == np_mean(intervals)
             std_interval_sq == np_std_sq(intervals)
             jitter_sq == JitterSq(std_interval_sq, avg_interval)
         IN  [ is_beaconing |-> IsBeaconing(jitter_sq, avg_interval, max_jitter),
               avg_interval |-> avg_interval,
               std_interval_sq |-> std_interval_sq,
               jitter_sq |-> jitter_sq,
               connection_count |-> Len(timestamps) ]

Min(a, b) == IF a < b THEN a ELSE b

\* Mutant: the count tiers start one connection early (>= 50, >= 20).
calculate_severity_Inclusive(analysis) ==
    LET jitter == analysis.jitter_sq
        count == analysis.connection_count
        j == IF JitterBelow(jitter, Rat(1, 100)) THEN 3
             ELSE IF JitterBelow(jitter, Rat(1, 50)) THEN 2
             ELSE IF JitterBelow(jitter, Rat(1, 20)) THEN 1
             ELSE 0
        c == IF count >= 50 THEN 2
             ELSE IF count >= 20 THEN 1
             ELSE 0
    IN  Min(5 + j + c, 10)

\* Mutant: the jitter tiers are not exclusive: every bonus whose
\* threshold the jitter is under is added.
calculate_severity_Cumulative(analysis) ==
    LET jitter == analysis.jitter_sq
        count == analysis.connection_count
        j == (IF JitterBelow(jitter, Rat(1, 100)) THEN 3 ELSE 0)
             + (IF JitterBelow(jitter, Rat(1, 50)) THEN 2 ELSE 0)
             + (IF JitterBelow(jitter, Rat(1, 20)) THEN 1 ELSE 0)
        c == IF count > 50 THEN 2
             ELSE IF count > 20 THEN 1
             ELSE 0
    IN  Min(5 + j + c, 10)

calculate_severity(analysis) ==
    LET jitter == analysis.jitter_sq
        count == analysis.connection_count
        j == IF JitterBelow(jitter, Rat(1, 100)) THEN 3
             ELSE IF JitterBelow(jitter, Rat(1, 50)) THEN 2
             ELSE IF JitterBelow(jitter, Rat(1, 20)) THEN 1
             ELSE 0
        c == IF count > 50 THEN 2
             ELSE IF count > 20 THEN 1
             ELSE 0
    IN  Min(5 + j + c, 10)

Detection(key, timestamps, result) ==
    [ dst_ip |-> key[1],
      process_name |-> key[2],
      connection_count |-> Len(timestamps),
      average_interval_seconds |-> result.avg_interval,
      jitter_sq |-> result.jitter_sq,
      severity |-> calculate_severity(result),
      recommended_action |-> "investigate" ]

\* Mutant: the size test is off by one and lets a group of min_connections - 1
\* records through.
TooFew_OffByOne(timestamps, min_conn) == Len(timestamps) < min_conn - 1

\* Mutant: the size test also skips a group of exactly min_connections records.
TooFew_Inclusive(timestamps, min_conn) == Len(timestamps) <= min_conn

\* len(timestamps) < self.min_connections: the group is skipped.
TooFew(timestamps, min_conn) == Len(timestamps) < min_conn

\* The loop over grouped.items(): the findings for the first k keys.
RECURSIVE DetectionsUpTo(_, _, _, _, _)
DetectionsUpTo(conns, order, k, min_conn, max_jitter) ==
    IF k = 0 THEN <<>>
    ELSE LET before == DetectionsUpTo(conns, order, k - 1, min_conn, max_jitter)
             timestamps == GroupTimestamps(conns, order[k])
         IN  IF TooFew(timestamps, min_conn) THEN before
             ELSE LET result == analyze_timing_pattern(timestamps, max_jitter)
                  IN  IF result.is_beaconing
                      THEN Append(before, Detection(order[k], timestamps, result))
                      ELSE before

analyze_connections(conns, min_conn, max_jitter) ==
    LET order == GroupOrder(conns)
    IN  DetectionsUpTo(conns, order, Len(order), min_conn, max_jitter)

----------------------------------------------------------------------------
(* The detector's state machine                                            *)

\* A detector constructed with some arguments, no window analyzed yet; the
\* hash scanner is left as constructed with no key.
BeaconInit ==
    /\ min_connections \in MinConnectionsChoices
    /\ max_jitter_percent \in MaxJitterChoices
    /\ connections = <<>>
    /\ detections = <<>>
    /\ analyzed = FALSE
    /\ vt_api_key = None
    /\ known_malware_hashes = {}
    /\ scans = [id \in ScanIds |-> IdleScan]
    /\ rules_dir = MissingDir
    /\ engines = [e \in Engines |-> NoEngine]
    /\ yara_scans = [id \in YaraScanIds |-> IdleYaraScan]
    /\ dir_scan = IdleDirScan
    /\ pairing_tokens = <<>>
    /\ devices = <<>>
    /\ pair_requests = [r \in PairRequests |-> NoPairRequest]
    /\ utcnow = 0

Conn(key, t) == [dst_ip |-> key[1], process_name |-> key[2], timestamp |-> t]

\* The telemetry feed starts a window with a periodic run of one pair.
ObservePeriodic ==
    /\ connections = <<>>
    /\ \E size \in BeaconSizes, step \in BeaconSteps :
          connections' = [i \in 1..size |-> Conn(BeaconKey, BeaconStart + (i - 1) * step)]
    /\ detections' = <<>>
    /\ analyzed' = FALSE
    /\ UNCHANGED <<min_connections, max_jitter_percent, hashVars, yaraVars, dirVars, pairVars>>

Singles(conns) == Cardinality({i \in 1..Len(conns) : conns[i].timestamp < BeaconStart})

\* The telemetry feed appends one record.
ObserveConnection ==
    /\ Singles(connections) < MaxSingles
    /\ \E key \in ConnKeys, t \in Timestamps :
          connections' = Append(connections, Conn(key, t))
    /\ detections' = <<>>
    /\ analyzed' = FALSE
    /\ UNCHANGED <<min_connections, max_jitter_percent, hashVars, yaraVars, dirVars, pairVars>>

\* detections = detector.analyze_connections(connections)
AnalyzeConnections ==
    /\ ~analyzed
    /\ detections' = analyze_connections(connections, min_connections, max_jitter_percent)
    /\ analyzed' = TRUE
    /\ UNCHANGED <<min_connections, max_jitter_percent, connections, hashVars, yaraVars, dirVars, pairVars>>

BeaconNext == ObservePeriodic \/ ObserveConnection \/ AnalyzeConnections

\* Windows made of runs of several pairs: RunSizes records of one pair, the
\* first at BeaconStart, one every step seconds; step 0 is a burst of
\* records with one timestamp.
RunSizes == {9, 10}
RunSteps == {0, 60}
RunJitterChoices == {DefaultMaxJitter, Rat(1, 2), Rat(1, 1)}

\* A detector constructed with some arguments, thresholds up to 1.0.
RunInit ==
    /\ min_connections \in MinConnectionsChoices
    /\ max_jitter_percent \in RunJitterChoices
    /\ connections = <<>>
    /\ detections = <<>>
    /\ analyzed = FALSE
    /\ vt_api_key = None
    /\ known_malware_hashes = {}
    /\ scans = [id \in ScanIds |-> IdleScan]
    /\ rules_dir = MissingDir
    /\ engines = [e \in Engines |-> NoEngine]
    /\ yara_scans = [id \in YaraScanIds |-> IdleYaraScan]
    /\ dir_scan = IdleDirScan
    /\ pairing_tokens = <<>>
    /\ devices = <<>>
    /\ pair_requests = [r \in PairRequests |-> NoPairRequest]
    /\ utcnow = 0

\* The telemetry feed appends a run of one pair to the window.
ObserveRun ==
    /\ \E key \in ConnKeys, size \in RunSizes, step \in RunSteps :
          /\ Len(connections) + size <= MaxWindow
          /\ connections' = connections \o
                 [i \in 1..size |-> Conn(key, BeaconStart + (i - 1) * step)]
    /\ detections' = <<>>
    /\ analyzed' = FALSE
    /\ UNCHANGED <<min_connections, max_jitter_percent, hashVars, yaraVars, dirVars, pairVars>>

RunNext == ObserveRun \/ AnalyzeConnections

----------------------------------------------------------------------------
(* HashScanner: files, digests and the remote service                      *)

\* The files a caller may name, what open/read does on each, and the bytes
\* of the readable ones.
FilePaths == {"/srv/empty.bin", "/srv/notes.txt", "/srv/dropper.exe", "/srv/copy.exe",
              "/srv/locked.sys", "/srv/failing.dll"}

FileStatus(file_path) ==
    CASE file_path = "/srv/locked.sys" -> "open_error"
      [] file_path = "/srv/failing.dll" -> "read_error"
      [] OTHER -> "ok"

FileContent(file_path) ==
    CASE file_path = "/srv/empty.bin" -> ""
      [] file_path = "/srv/notes.txt" -> "notes"
      [] OTHER -> "MZ-payload"

\* hashlib.sha256(content).hexdigest(): lower-case hex, never empty, one
\* digest per content (shortened here).
Sha256Hex(content) ==
    CASE content = "" -> "e3b0c44298fc1c14"
      [] content = "notes" -> "2f1d5e0a77b3c9d4"
      [] OTHER -> "9f86d081884c7d65"

\* str.lower() on the strings of the model.
Lower(str) ==
    CASE str = "9F86D081884C7D65" -> "9f86d081884c7d65"
      [] str = ".EXE" -> ".exe"
      [] OTHER -> str

\* What a caller may put into known_malware_hashes.
HashChoices == {"9f86d081884c7d65", "9F86D081884C7D65", "e3b0c44298fc1c14"}

\* What the HTTP request of check_virustotal may end in.
RemoteAnswers ==
    { [status |-> 200, body |-> "stats", malicious |-> m] : m \in {0, 5, 6} }
    \cup { [status |-> 200, body |-> "no_count"],
           [status |-> 200, body |-> "malformed"],
           [status |-> 404],
           [status |-> 500],
           [exception |-> "timeout"],
           [exception |-> "transport"] }

ApiKeyChoices == {None, "vt-key"}

\* dict.get(key, default)
Get(dict, key, default) == IF key \in DOMAIN dict THEN dict[key] ELSE default

\* Mutant: a failure to open or read is hashed as an empty file.
calculate_sha256_EmptyOnFailure(file_path) ==
    IF FileStatus(file_path) = "ok" THEN Sha256Hex(FileContent(file_path)) ELSE Sha256Hex("")

calculate_sha256(file_path) ==
    IF FileStatus(file_path) = "ok" THEN Sha256Hex(FileContent(file_path)) ELSE ""

check_local_database(file_hash, known) == Lower(file_hash) \in known

check_virustotal(api_key, answer) ==
    IF api_key = None THEN [error |-> "No VirusTotal API key configured"]
    ELSE IF "exception" \in DOMAIN answer THEN [error |-> answer.exception]
    ELSE IF answer.status = 200
         THEN IF answer.body = "malformed" THEN [error |-> "malformed"]
              ELSE [found |-> TRUE, malicious |-> Get(answer, "malicious", 0)]
    ELSE IF answer.status = 404 THEN [found |-> FALSE]
    ELSE [error |-> "VirusTotal API error", status_code |-> answer.status]

CleanResult(file_hash) == [hash |-> file_hash, malicious |-> FALSE, source |-> "clean"]

\* Mutant: five engines are enough for a malicious verdict.
VerdictAfterRemote_AtLeastFive(file_hash, vt_result) ==
    IF Get(vt_result, "found", FALSE) /\ Get(vt_result, "malicious", 0) >= 5
    THEN [ hash |-> file_hash, malicious |-> TRUE, source |-> "virustotal",
           explanation |-> <<"Detected by", vt_result.malicious, "antivirus engines">>,
           details |-> vt_result ]
    ELSE CleanResult(file_hash)

\* scan_file from the return of check_virustotal to its own return.
VerdictAfterRemote(file_hash, vt_result) ==
    IF Get(vt_result, "found", FALSE) /\ Get(vt_result, "malicious", 0) > 5
    THEN [ hash |-> file_hash, malicious |-> TRUE, source |-> "virustotal",
           explanation |-> <<"Detected by", vt_result.malicious, "antivirus engines">>,
           details |-> vt_result ]
    ELSE CleanResult(file_hash)

\* Mutant: with a key configured the remote service is asked before the local
\* set is looked at.
scan_file_begin_RemoteFirst(file_path, known, api_key) ==
    LET file_hash == calculate_sha256(file_path)
        call == [IdleScan EXCEPT !.file_path = file_path, !.file_hash = file_hash]
    IN  IF file_hash = ""
        THEN [call EXCEPT !.pc = "done", !.result = [error |-> "Could not hash file"]]
        ELSE IF api_key # None
        THEN [call EXCEPT !.pc = "awaiting", !.remote_calls = 1]
        ELSE IF check_local_database(file_hash, known)
        THEN [call EXCEPT !.pc = "done", !.local_lookups = 1,
                          !.result = [ hash |-> file_hash, malicious |-> TRUE,
                                       source |-> "local_db",
                                       explanation |-> "File matches known malware signature" ]]
        ELSE [call EXCEPT !.pc = "done", !.local_lookups = 1, !.result = CleanResult(file_hash)]

\* Mutant: after a local miss the remote service is asked whether or not a
\* key is configured.
scan_file_begin_AskWithoutKey(file_path, known, api_key) ==
    LET file_hash == calculate_sha256(file_path)
        call == [IdleScan EXCEPT !.file_path = file_path, !.file_hash = file_hash]
    IN  IF file_hash = ""
        THEN [call EXCEPT !.pc = "done", !.result = [error |-> "Could not hash file"]]
        ELSE IF check_local_database(file_hash, known)
        THEN [call EXCEPT !.pc = "done", !.local_lookups = 1,
                          !.result = [ hash |-> file_hash, malicious |-> TRUE,
                                       source |-> "local_db",
                                       explanation |-> "File matches known malware signature" ]]
        ELSE [call EXCEPT !.pc = "awaiting", !.local_lookups = 1, !.remote_calls = 1]

\* scan_file up to its first await or its return: the call's record, with the
\* number of local lookups and of remote requests it has made.
scan_file_begin(file_path, known, api_key) ==
    LET file_hash == calculate_sha256(file_path)
        call == [IdleScan EXCEPT !.file_path = file_path, !.file_hash = file_hash]
    IN  IF file_hash = ""
        THEN [call EXCEPT !.pc = "done", !.result = [error |-> "Could not hash file"]]
        ELSE IF check_local_database(file_hash, known)
        THEN [call EXCEPT !.pc = "done", !.local_lookups = 1,
                          !.result = [ hash |-> file_hash, malicious |-> TRUE,
                                       source |-> "local_db",
                                       explanation |-> "File matches known malware signature" ]]
        ELSE IF api_key # None
        THEN [call EXCEPT !.pc = "awaiting", !.local_lookups = 1, !.remote_calls = 1]
        ELSE [call EXCEPT !.pc = "done", !.local_lookups = 1, !.result = CleanResult(file_hash)]

----------------------------------------------------------------------------
(* HashScanner.scan_directory: the directory tree and its walk             *)

\* An entry of the file system: its path, the directory that lists it, what
\* it is, and pathlib's suffix of its name.  inside is the set of real
\* directories the entry lies in, at any depth.
Entry(path, parent, kind, suffix, inside) ==
    [path |-> path, parent |-> parent, kind |-> kind, suffix |-> suffix, inside |-> inside]

\* A symbolic link: kind "link" and the path it points to.
Link(path, parent, target, suffix, inside) ==
    [ path |-> path, parent |-> parent, kind |-> "link", target |-> target,
      suffix |-> suffix, inside |-> inside ]

\* The entries in the order the operating system lists them. /srv/latest.exe
\* is a link to a file of the tree, /srv/tools/back a link from a
\* subdirectory to the top: a loop for a walk that follows links.
WalkOrder ==
    << Entry("/srv", "/", "dir", "", {}),
       Entry("/srv/notes.txt", "/srv", "file", ".txt", {"/srv"}),
       Entry("/srv/dropper.exe", "/srv", "file", ".exe", {"/srv"}),
       Entry("/srv/locked.sys", "/srv", "file", ".sys", {"/srv"}),
       Link("/srv/latest.exe", "/srv", "/srv/dropper.exe", ".exe", {"/srv"}),
       Entry("/srv/README", "/srv", "file", "", {"/srv"}),
       Entry("/srv/tools", "/srv", "dir", "", {"/srv"}),
       Entry("/srv/tools/SETUP.EXE", "/srv/tools", "file", ".EXE", {"/srv", "/srv/tools"}),
       Link("/srv/tools/back", "/srv/tools", "/srv", "", {"/srv", "/srv/tools"}),
       Entry("/srv/tools/deep", "/srv/tools", "dir", "", {"/srv", "/srv/tools"}),
       Entry("/srv/tools/deep/copy.exe", "/srv/tools/deep", "file", ".exe",
             {"/srv", "/srv/tools", "/srv/tools/deep"}),
       Entry("/opt", "/", "dir", "", {}),
       Entry("/opt/outside.exe", "/opt", "file", ".exe", {"/opt"}) >>

Entries == { WalkOrder[i] : i \in DOMAIN WalkOrder }

EntryAt(path) == CHOOSE e \in Entries : e.path = path

\* The directory arguments and the extensions arguments of the calls.
ScanRoots == {"/srv", "/srv/tools", "/srv/tools/deep", "/srv/missing"}
\* extensions is None (NoExtensions, the default) or a list of suffixes.
Extensions(list) == [given |-> TRUE, list |-> list]
ExtensionFilters ==
    { NoExtensions, Extensions(<<>>), Extensions(<<".exe">>), Extensions(<<".EXE">>),
      Extensions(<<".txt", ".sys">>) }

\* What the scanner holds when a directory scan starts.
KnownChoices == { {}, {"9f86d081884c7d65"} }

RECURSIVE Resolve(_)
\* The entry a path leads to once its links are followed.
Resolve(e) == IF e.kind = "link" THEN Resolve(EntryAt(e.target)) ELSE e

\* Path.exists(), Path.is_file(): both follow links.
exists(path) == \E e \in Entries : e.path = path
is_file(path) == exists(path) /\ Resolve(EntryAt(path)).kind = "file"

RECURSIVE Descends(_, _)
\* rglob descends from a directory into its subdirectories, and never into
\* a link to a directory.
Descends(root, e) ==
    \/ e.parent = root
    \/ /\ exists(e.parent)
       /\ EntryAt(e.parent).kind = "dir"
       /\ Descends(root, EntryAt(e.parent))

\* Path(root).rglob('*'): every path below root, each once.
rglob(root) ==
    LET listed == SelectSeq(WalkOrder, LAMBDA e : Descends(root, e))
    IN  [i \in 1..Len(listed) |-> listed[i].path]

\* x in list
InList(x, list) == \E i \in 1..Len(list) : list[i] = x

\* "extensions and file_path.suffix.lower() not in extensions": None and the
\* empty list filter nothing.
Skipped(path, extensions) ==
    /\ extensions.given
    /\ extensions.list # <<>>
    /\ ~InList(Lower(EntryAt(path).suffix), extensions.list)

\* result['path'] = str(file_path)
WithPath(result, path) ==
    [k \in DOMAIN result \cup {"path"} |-> IF k = "path" THEN path ELSE result[k]]

----------------------------------------------------------------------------
(* The scanner's state machine                                             *)

\* A scanner constructed with or without a key, no call made yet; the
\* beaconing detector is left as constructed with its defaults.
HashInit ==
    /\ vt_api_key \in ApiKeyChoices
    /\ known_malware_hashes = {}
    /\ scans = [id \in ScanIds |-> IdleScan]
    /\ min_connections = DefaultMinConnections
    /\ max_jitter_percent = DefaultMaxJitter
    /\ connections = <<>>
    /\ detections = <<>>
    /\ analyzed = FALSE
    /\ rules_dir = MissingDir
    /\ engines = [e \in Engines |-> NoEngine]
    /\ yara_scans = [id \in YaraScanIds |-> IdleYaraScan]
    /\ dir_scan = IdleDirScan
    /\ pairing_tokens = <<>>
    /\ devices = <<>>
    /\ pair_requests = [r \in PairRequests |-> NoPairRequest]
    /\ utcnow = 0

\* _load_malware_database loads nothing; a caller fills the set.
LoadHash ==
    /\ \E h \in HashChoices : known_malware_hashes' = known_malware_hashes \cup {h}
    /\ UNCHANGED <<vt_api_key, scans, beaconVars, yaraVars, dirVars, pairVars>>

\* A caller awaits scan_file(file_path); the call runs to its await of the
\* HTTP request, or to its return.
ScanFile ==
    /\ \E id \in ScanIds, file_path \in FilePaths :
          /\ scans[id].pc = "idle"
          /\ scans' = [scans EXCEPT
                          ![id] = scan_file_begin(file_path, known_malware_hashes, vt_api_key)]
    /\ UNCHANGED <<vt_api_key, known_malware_hashes, beaconVars, yaraVars, dirVars, pairVars>>

\* The HTTP request of a waiting call ends; check_virustotal and scan_file return.
RemoteAnswer ==
    /\ \E id \in ScanIds, answer \in RemoteAnswers :
          /\ scans[id].pc = "awaiting"
          /\ scans' = [scans EXCEPT
                          ![id].pc = "done",
                          ![id].answer = answer,
                          ![id].result = VerdictAfterRemote(scans[id].file_hash,
                                                            check_virustotal(vt_api_key, answer))]
    /\ UNCHANGED <<vt_api_key, known_malware_hashes, beaconVars, yaraVars, dirVars, pairVars>>

\* The caller has its result and may call again.
ScanReturn ==
    /\ \E id \in ScanIds :
          /\ scans[id].pc = "done"
          /\ scans' = [scans EXCEPT ![id] = IdleScan]
    /\ UNCHANGED <<vt_api_key, known_malware_hashes, beaconVars, yaraVars, dirVars, pairVars>>

HashNext == LoadHash \/ ScanFile \/ RemoteAnswer \/ ScanReturn

----------------------------------------------------------------------------
(* scan_directory as a state machine                                       *)

\* A scanner with or without a key and with or without a known digest; no
\* call made yet.
DirInit ==
    /\ vt_api_key \in ApiKeyChoices
    /\ known_malware_hashes \in KnownChoices
    /\ scans = [id \in ScanIds |-> IdleScan]
    /\ dir_scan = IdleDirScan
    /\ min_connections = DefaultMinConnections
    /\ max_jitter_percent = DefaultMaxJitter
    /\ connections = <<>>
    /\ detections = <<>>
    /\ analyzed = FALSE
    /\ rules_dir = MissingDir
    /\ engines = [e \in Engines |-> NoEngine]
    /\ yara_scans = [id \in YaraScanIds |-> IdleYaraScan]
    /\ pairing_tokens = <<>>
    /\ devices = <<>>
    /\ pair_requests = [r \in PairRequests |-> NoPairRequest]
    /\ utcnow = 0

\* scan_directory(directory, extensions) up to its loop: a missing directory
\* returns the empty list.
ScanDirectory ==
    /\ dir_scan.pc = "idle"
    /\ \E directory \in ScanRoots, extensions \in ExtensionFilters :
          dir_scan' = IF ~exists(directory)
                      THEN [IdleDirScan EXCEPT !.pc = "done", !.directory = directory,
                                               !.extensions = extensions]
                      ELSE [IdleDirScan EXCEPT !.pc = "walking", !.directory = directory,
                                               !.extensions = extensions,
                                               !.todo = rglob(directory)]
    /\ UNCHANGED <<hashVars, beaconVars, yaraVars, pairVars>>

\* One turn of the loop: the next path is passed over, or scan_file is
\* called on it and runs to its await or its return.
DirVisit ==
    /\ dir_scan.pc = "walking"
    /\ dir_scan.todo # <<>>
    /\ LET file_path == Head(dir_scan.todo)
       IN  IF ~is_file(file_path) \/ Skipped(file_path, dir_scan.extensions)
           THEN /\ dir_scan' = [dir_scan EXCEPT !.todo = Tail(@)]
                /\ UNCHANGED scans
           ELSE /\ dir_scan' = [dir_scan EXCEPT !.pc = "in_scan_file", !.current = file_path,
                                                !.todo = Tail(@)]
                /\ scans' = [scans EXCEPT
                                ![1] = scan_file_begin(file_path, known_malware_hashes,
                                                       vt_api_key)]
    /\ UNCHANGED <<vt_api_key, known_malware_hashes, beaconVars, yaraVars, pairVars>>

\* Mutant: an error result of scan_file ends the walk.
DirCollect_AbortOnError ==
    /\ dir_scan.pc = "in_scan_file"
    /\ scans[1].pc = "done"
    /\ dir_scan' = IF "error" \in DOMAIN scans[1].result
                   THEN [dir_scan EXCEPT !.pc = "done", !.current = None]
                   ELSE [dir_scan EXCEPT
                            !.pc = "walking", !.current = None,
                            !.results = Append(@, WithPath(scans[1].result,
                                                           dir_scan.current))]
    /\ scans' = [scans EXCEPT ![1] = IdleScan]
    /\ UNCHANGED <<vt_api_key, known_malware_hashes, beaconVars, yaraVars, pairVars>>

\* scan_file has returned: the result gets its path and is appended.
DirCollect ==
    /\ dir_scan.pc = "in_scan_file"
    /\ scans[1].pc = "done"
    /\ dir_scan' = [dir_scan EXCEPT
                       !.pc = "walking", !.current = None,
                       !.results = Append(@, WithPath(scans[1].result, dir_scan.current))]
    /\ scans' = [scans EXCEPT ![1] = IdleScan]
    /\ UNCHANGED <<vt_api_key, known_malware_hashes, beaconVars, yaraVars, pairVars>>

\* The walk is over: return results.
DirReturn ==
    /\ dir_scan.pc = "walking"
    /\ dir_scan.todo = <<>>
    /\ dir_scan' = [dir_scan EXCEPT !.pc = "done"]
    /\ UNCHANGED <<hashVars, beaconVars, yaraVars, pairVars>>

DirNext == ScanDirectory \/ DirVisit \/ RemoteAnswer \/ DirCollect \/ DirReturn

----------------------------------------------------------------------------
(* YaraEngine: rule files, compilation and matching                        *)

\* A rule file name is the pair (stem, suffix) that pathlib splits it into.
Stem(name) == name[1]
Suffix(name) == name[2]

\* The suffixes of the modelled names that the pattern '*.yar*' accepts.
YarSuffixes == {".yar", ".yara"}

DefaultRuleNames ==
    { <<"cobalt_strike", ".yar">>, <<"apt_indicators", ".yar">>, <<"ransomware", ".yar">> }

\* The files an operator drops into the directory: two rule files with one
\* stem, and a file that is no rule file.
OperatorRuleNames == { <<"custom", ".yar">>, <<"custom", ".yara">> }
ReadmeName == <<"README", ".txt">>

\* The order in which compiled namespaces are laid out.
NameOrder ==
    << <<"apt_indicators", ".yar">>, <<"cobalt_strike", ".yar">>, <<"custom", ".yar">>,
       <<"custom", ".yara">>, <<"ransomware", ".yar">> >>

\* Values of a rule's meta section: YARA has integers and strings.
IntMeta(n) == [type |-> "int", int |-> n, str |-> ""]
StrMeta(s) == [type |-> "str", int |-> 0, str |-> s]

\* A rule matches when every group of its condition has a string in the data.
Rule(name, meta, condition) == [rule |-> name, meta |-> meta, condition |-> condition]

CobaltStrikeRule ==
    Rule("CobaltStrike_Beacon",
         [description |-> StrMeta("Detects Cobalt Strike Beacon payload"), severity |-> IntMeta(10)],
         {{"beacon.dll", "ReflectiveLoader", "IEX (New-Object Net.Webclient)"}})

AptIndicatorsRule ==
    Rule("APT_Indicators",
         [description |-> StrMeta("Generic APT behavior indicators"), severity |-> IntMeta(8)],
         {{"sekurlsa::logonpasswords", "empire.py", "meterpreter"}})

RansomwareRule ==
    Rule("Ransomware_Indicators",
         [description |-> StrMeta("Ransomware behavior patterns"), severity |-> IntMeta(10)],
         {{"AES", "RSA"}, {"bitcoin", ".locked", "vssadmin delete shadows"}})

\* Operator rules: no severity, a negative one, one above ten, a word, and
\* a quoted number.
CustomYarRules ==
    << Rule("Custom_NoSeverity", [description |-> StrMeta("Stage one dropper")],
            {{"dropper-stage1"}}),
       Rule("Custom_Negative", [severity |-> IntMeta(-3)], {{"test-marker"}}),
       Rule("Custom_TooHigh",
            [description |-> StrMeta("Disk wiper"), severity |-> IntMeta(15)],
            {{"wiper-core"}}),
       Rule("Custom_Textual", [severity |-> StrMeta("high")], {{"keylog-hook"}}),
       Rule("Custom_Quoted", [severity |-> StrMeta("9")], {{"loader-stub"}}) >>

CustomYaraRules ==
    << Rule("Custom_Zero", [severity |-> IntMeta(0)], {{"loader-stub", "test-marker"}}) >>

\* What a file holds: rule text that compiles, or text that does not.
RuleText(rules) == [ok |-> TRUE, rules |-> rules]
BrokenText == [ok |-> FALSE, rules |-> <<>>]

File(name, content) == [name |-> name, content |-> content]

\* The three files _create_default_rules writes.
DefaultFiles ==
    { File(<<"cobalt_strike", ".yar">>, RuleText(<<CobaltStrikeRule>>)),
      File(<<"apt_indicators", ".yar">>, RuleText(<<AptIndicatorsRule>>)),
      File(<<"ransomware", ".yar">>, RuleText(<<RansomwareRule>>)) }

OperatorFiles ==
    { File(<<"custom", ".yar">>, RuleText(CustomYarRules)),
      File(<<"custom", ".yara">>, RuleText(CustomYaraRules)),
      File(<<"custom", ".yara">>, BrokenText) }

\* A directory as a deployment finds it: missing, empty, or holding no rule
\* file.  writers records who has written files into it since.
EmptyDir == [exists |-> TRUE, files |-> {}, writers |-> {}]
InitialDirs ==
    { MissingDir, EmptyDir,
      [exists |-> TRUE, files |-> {File(ReadmeName, BrokenText)}, writers |-> {}] }

Names(dir) == {f.name : f \in dir.files}

\* Mutant: the write is lost: the directory is as it was.
write_text_Lost(dir, files, writer) == [dir EXCEPT !.exists = TRUE]

\* write_text: the file is created or replaced.
write_text(dir, files, writer) ==
    [exists |-> TRUE,
     files |-> {f \in dir.files : f.name \notin {g.name : g \in files}} \cup files,
     writers |-> dir.writers \cup {writer}]

\* rules_path.glob('*.yar*')
glob_yar(dir) == {name \in Names(dir) : Suffix(name) \in YarSuffixes}

\* The dicts the loop over the listing can build: rule_files[stem] = path
\* keeps, for each stem, the path listed last; the listing order is the
\* file system's.  A dict is modelled by the set of its paths.
rule_files_dicts(dir) ==
    { d \in SUBSET glob_yar(dir) :
         /\ \A name \in glob_yar(dir) : \E kept \in d : Stem(kept) = Stem(name)
         /\ \A a \in d, b \in d : Stem(a) = Stem(b) => a = b }

ContentOf(dir, name) == (CHOOSE f \in dir.files : f.name = name).content

\* yara.compile(filepaths=rule_files) raises when a path is gone or a file
\* does not compile.
CompileFails(rule_files, dir) ==
    \E name \in rule_files : name \notin Names(dir) \/ ~ContentOf(dir, name).ok

RECURSIVE CompiledUpTo(_, _, _)
CompiledUpTo(rule_files, dir, k) ==
    IF k = 0 THEN <<>>
    ELSE LET name == NameOrder[k]
             rest == CompiledUpTo(rule_files, dir, k - 1)
         IN  IF name \in rule_files
             THEN rest \o [i \in 1..Len(ContentOf(dir, name).rules) |->
                             [namespace |-> Stem(name), file |-> name,
                              rule |-> ContentOf(dir, name).rules[i].rule,
                              meta |-> ContentOf(dir, name).rules[i].meta,
                              condition |-> ContentOf(dir, name).rules[i].condition]]
             ELSE rest

yara_compile(rule_files, dir) ==
    [loaded |-> TRUE, rules |-> CompiledUpTo(rule_files, dir, Len(NameOrder))]

\* The files and processes a caller may name, and the strings in each.
ScanFiles ==
    { "/srv/notes.txt", "/srv/beacon.exe", "/srv/stage1.bin", "/srv/marker.bin",
      "/srv/wiper.exe", "/srv/keylog.dll", "/srv/loader.bin", "/srv/locked.sys" }
ScanPids == { "pid-100", "pid-200", "pid-300" }

Readable(target) == target \notin {"/srv/locked.sys", "pid-300"}

StringsIn(target) ==
    CASE target = "/srv/beacon.exe" -> {"ReflectiveLoader", "meterpreter"}
      [] target = "/srv/stage1.bin" -> {"dropper-stage1"}
      [] target = "/srv/marker.bin" -> {"test-marker"}
      [] target = "/srv/wiper.exe" -> {"wiper-core", "meterpreter"}
      [] target = "/srv/keylog.dll" -> {"keylog-hook"}
      [] target = "/srv/loader.bin" -> {"loader-stub"}
      [] target = "/srv/notes.txt" -> {"AES"}
      [] target = "pid-200" -> {"ReflectiveLoader", "AES", "bitcoin"}
      [] OTHER -> {}

ConditionHolds(rule, target) ==
    \A group \in rule.condition : group \cap StringsIn(target) # {}

\* compiled_rules.match(...) raises on None and on a target it cannot read.
MatchRaises(compiled_rules, target) == ~compiled_rules.loaded \/ ~Readable(target)

MatchError(compiled_rules, target) ==
    IF ~compiled_rules.loaded THEN "'NoneType' object has no attribute 'match'"
    ELSE "could not open file"

yara_match(compiled_rules, target) ==
    SelectSeq(compiled_rules.rules, LAMBDA rule : ConditionHolds(rule, target))

\* int(x): an integer as it is, a string when it spells a number.
DecimalStrings == [s \in {"9"} |-> 9]
IntRaises(value) == value.type = "str" /\ value.str \notin DOMAIN DecimalStrings
int(value) == IF value.type = "int" THEN value.int ELSE DecimalStrings[value.str]

DefaultSeverity == IntMeta(5)

Max(a, b) == IF a > b THEN a ELSE b

ErrorResult(message) == [error |-> message]
EmptyResult == [matches |-> <<>>, malicious |-> FALSE]

\* match.meta.get('severity', 5)
SeverityMeta(match) == Get(match.meta, "severity", DefaultSeverity)

\* The loop of scan_file: max_severity starts at 0.
RECURSIVE max_severity_upto(_, _)
max_severity_upto(matches, k) ==
    IF k = 0 THEN 0
    ELSE Max(max_severity_upto(matches, k - 1), int(SeverityMeta(matches[k])))

MatchDetail(match, target) ==
    [ rule |-> match.rule,
      description |-> Get(match.meta, "description", StrMeta("")).str,
      severity |-> int(SeverityMeta(match)),
      tags |-> <<>>,
      strings |-> UNION match.condition \cap StringsIn(target) ]

\* scan_file from its try block on: match, then build the result; every
\* exception becomes an error result.
scan_file_match(compiled_rules, target) ==
    IF MatchRaises(compiled_rules, target)
    THEN ErrorResult(MatchError(compiled_rules, target))
    ELSE LET matches == yara_match(compiled_rules, target)
         IN  IF matches = <<>> THEN EmptyResult
             ELSE IF \E i \in 1..Len(matches) : IntRaises(SeverityMeta(matches[i]))
             THEN ErrorResult("invalid literal for int() with base 10")
             ELSE [ matches |-> [i \in 1..Len(matches) |-> MatchDetail(matches[i], target)],
                    malicious |-> TRUE,
                    explanation |-> [i \in 1..Len(matches) |-> matches[i].rule],
                    severity |-> max_severity_upto(matches, Len(matches)) ]

\* scan_file up to its try block: the test of self.compiled_rules.
scan_file_begin_yara(call, engine, target, compiled_rules) ==
    IF ~compiled_rules.loaded
    THEN [call EXCEPT !.pc = "done", !.op = "scan_file", !.engine = engine,
                      !.target = target, !.first_read = compiled_rules,
                      !.last_read = compiled_rules,
                      !.result = ErrorResult("No YARA rules loaded")]
    ELSE [call EXCEPT !.pc = "matching", !.op = "scan_file", !.engine = engine,
                      !.target = target, !.first_read = compiled_rules,
                      !.last_read = compiled_rules, !.result = NoResult]

ProcessDetail(match) ==
    [ rule |-> match.rule,
      description |-> Get(match.meta, "description", StrMeta("")).str,
      severity |-> int(SeverityMeta(match)) ]

\* Mutant: an engine without rules reports a process as clean.
scan_process_memory_CleanWithoutRules(compiled_rules, pid) ==
    IF ~compiled_rules.loaded THEN EmptyResult
    ELSE IF ~Readable(pid) THEN ErrorResult(MatchError(compiled_rules, pid))
    ELSE LET matches == yara_match(compiled_rules, pid)
         IN  IF matches = <<>> THEN EmptyResult
             ELSE IF \E i \in 1..Len(matches) : IntRaises(SeverityMeta(matches[i]))
             THEN ErrorResult("invalid literal for int() with base 10")
             ELSE [ matches |-> [i \in 1..Len(matches) |-> ProcessDetail(matches[i])],
                    malicious |-> TRUE,
                    explanation |-> Len(matches) ]

scan_process_memory(compiled_rules, pid) ==
    IF MatchRaises(compiled_rules, pid)
    THEN ErrorResult(MatchError(compiled_rules, pid))
    ELSE LET matches == yara_match(compiled_rules, pid)
         IN  IF matches = <<>> THEN EmptyResult
             ELSE IF \E i \in 1..Len(matches) : IntRaises(SeverityMeta(matches[i]))
             THEN ErrorResult("invalid literal for int() with base 10")
             ELSE [ matches |-> [i \in 1..Len(matches) |-> ProcessDetail(matches[i])],
                    malicious |-> TRUE,
                    explanation |-> Len(matches) ]

\* load_rules up to the compile: the directory test, the listing, and the
\* branch taken.  dict is the rule_files the listing built.
\* Mutant: the reload drops the old rule set before it builds the new one.
load_rules_begin_ClearFirst(engine, dir, dict) ==
    IF ~dir.exists \/ glob_yar(dir) = {}
    THEN [engine EXCEPT !.pc = "create_default_rules", !.listed = {}, !.rule_files = {}]
    ELSE [engine EXCEPT !.pc = "compile", !.listed = glob_yar(dir), !.rule_files = dict, !.compiled_rules = NoRules]

load_rules_begin(engine, dir, dict) ==
    IF ~dir.exists \/ glob_yar(dir) = {}
    THEN [engine EXCEPT !.pc = "create_default_rules", !.listed = {}, !.rule_files = {}]
    ELSE [engine EXCEPT !.pc = "compile", !.listed = glob_yar(dir), !.rule_files = dict]

\* The try block of load_rules: compiled_rules is assigned when
\* yara.compile returns, and left alone when it raises.
\* Mutant: a failed compile clears the rule set.
load_rules_compile_ClearOnFailure(engine, dir) ==
    IF CompileFails(engine.rule_files, dir)
    THEN [engine EXCEPT !.pc = "idle", !.constructed = TRUE, !.listed = {},
                        !.rule_files = {}, !.depth = 0,
                        !.compiled_rules = NoRules,
                        !.log = "Error compiling YARA rules"]
    ELSE [engine EXCEPT !.pc = "idle", !.constructed = TRUE, !.listed = {},
                        !.rule_files = {}, !.depth = 0,
                        !.compiled_rules = yara_compile(engine.rule_files, dir),
                        !.log = "Loaded YARA rule files"]

load_rules_compile(engine, dir) ==
    IF CompileFails(engine.rule_files, dir)
    THEN [engine EXCEPT !.pc = "idle", !.constructed = TRUE, !.listed = {},
                        !.rule_files = {}, !.depth = 0,
                        !.log = "Error compiling YARA rules"]
    ELSE [engine EXCEPT !.pc = "idle", !.constructed = TRUE, !.listed = {},
                        !.rule_files = {}, !.depth = 0,
                        !.compiled_rules = yara_compile(engine.rule_files, dir),
                        !.log = "Loaded YARA rule files"]

----------------------------------------------------------------------------
(* The engine's state machine                                              *)

\* No engine constructed yet; the detector and the hash scanner are left as
\* constructed with their defaults.
YaraInit ==
    /\ rules_dir \in InitialDirs
    /\ engines = [e \in Engines |-> NoEngine]
    /\ yara_scans = [id \in YaraScanIds |-> IdleYaraScan]
    /\ min_connections = DefaultMinConnections
    /\ max_jitter_percent = DefaultMaxJitter
    /\ connections = <<>>
    /\ detections = <<>>
    /\ analyzed = FALSE
    /\ vt_api_key = None
    /\ known_malware_hashes = {}
    /\ scans = [id \in ScanIds |-> IdleScan]
    /\ dir_scan = IdleDirScan
    /\ pairing_tokens = <<>>
    /\ devices = <<>>
    /\ pair_requests = [r \in PairRequests |-> NoPairRequest]
    /\ utcnow = 0

\* YaraEngine(rules_dir): __init__ up to its call of load_rules.
NewEngine ==
    /\ engines[1].pc = "unborn"
    /\ engines' = [engines EXCEPT ![1].pc = "load_rules", ![1].compiled_rules = NoRules]
    /\ UNCHANGED <<rules_dir, yara_scans, beaconVars, hashVars, dirVars, pairVars>>

\* A further engine is constructed against the same directory once the
\* constructor of the one before it has returned.
NextEngine ==
    /\ \E e \in Engines \ {1} :
          /\ engines[e].pc = "unborn"
          /\ engines[e - 1].constructed
          /\ engines' = [engines EXCEPT ![e].pc = "load_rules", ![e].compiled_rules = NoRules]
    /\ UNCHANGED <<rules_dir, yara_scans, beaconVars, hashVars, dirVars, pairVars>>

\* load_rules: a missing directory is created; the listing is taken.
LoadRules ==
    /\ \E e \in Engines :
          /\ engines[e].pc = "load_rules"
          /\ rules_dir' = [rules_dir EXCEPT !.exists = TRUE]
          /\ \E dict \in rule_files_dicts(rules_dir) :
                engines' = [engines EXCEPT ![e] = load_rules_begin(engines[e], rules_dir, dict)]
    /\ UNCHANGED <<yara_scans, beaconVars, hashVars, dirVars, pairVars>>

\* Mutant: the defaults are written and never loaded.
CreateDefaultRules_NoReload ==
    /\ \E e \in Engines :
          /\ engines[e].pc = "create_default_rules"
          /\ rules_dir' = write_text(rules_dir, DefaultFiles, "engine")
          /\ engines' = [engines EXCEPT ![e].pc = "idle", ![e].constructed = TRUE,
                                        ![e].wrote_defaults = TRUE]
    /\ UNCHANGED <<yara_scans, beaconVars, hashVars, dirVars, pairVars>>

\* _create_default_rules: the three files are written, then load_rules is
\* called again.
CreateDefaultRules ==
    /\ \E e \in Engines :
          /\ engines[e].pc = "create_default_rules"
          /\ engines[e].depth < MaxDepth
          /\ rules_dir' = write_text(rules_dir, DefaultFiles, "engine")
          /\ engines' = [engines EXCEPT ![e].pc = "load_rules", ![e].wrote_defaults = TRUE,
                                        ![e].depth = @ + 1]
    /\ UNCHANGED <<yara_scans, beaconVars, hashVars, dirVars, pairVars>>

\* yara.compile and the assignment of its result.
CompileRules ==
    /\ \E e \in Engines :
          /\ engines[e].pc = "compile"
          /\ engines' = [engines EXCEPT ![e] = load_rules_compile(engines[e], rules_dir)]
    /\ UNCHANGED <<rules_dir, yara_scans, beaconVars, hashVars, dirVars, pairVars>>

\* A caller reloads the rules of a constructed engine.
ReloadRules ==
    /\ \E e \in Engines :
          /\ engines[e].pc = "idle"
          /\ engines' = [engines EXCEPT ![e].pc = "load_rules"]
    /\ UNCHANGED <<rules_dir, yara_scans, beaconVars, hashVars, dirVars, pairVars>>

\* An operator writes or replaces a rule file in the directory.
OperatorWrites ==
    /\ rules_dir.exists
    /\ \E file \in OperatorFiles :
          /\ file \notin rules_dir.files
          /\ rules_dir' = write_text(rules_dir, {file}, "operator")
    /\ UNCHANGED <<engines, yara_scans, beaconVars, hashVars, dirVars, pairVars>>

\* An operator removes a rule file of theirs.
OperatorRemoves ==
    /\ \E file \in rules_dir.files :
          /\ file.name \in OperatorRuleNames
          /\ rules_dir' = [rules_dir EXCEPT !.files = @ \ {file},
                                            !.writers = @ \cup {"operator"}]
    /\ UNCHANGED <<engines, yara_scans, beaconVars, hashVars, dirVars, pairVars>>

\* A caller invokes scan_file on a constructed engine: the test of
\* compiled_rules.
YaraScanFile ==
    /\ \E id \in YaraScanIds, e \in Engines, target \in ScanFiles :
          /\ yara_scans[id].pc = "idle"
          /\ engines[e].constructed
          /\ yara_scans' = [yara_scans EXCEPT ![id] =
                               scan_file_begin_yara(yara_scans[id], e, target,
                                                    engines[e].compiled_rules)]
    /\ UNCHANGED <<rules_dir, engines, beaconVars, hashVars, dirVars, pairVars>>

\* The call reads compiled_rules again, matches and returns.
YaraMatch ==
    /\ \E id \in YaraScanIds :
          /\ yara_scans[id].pc = "matching"
          /\ LET compiled_rules == engines[yara_scans[id].engine].compiled_rules
             IN  yara_scans' = [yara_scans EXCEPT
                                   ![id].pc = "done",
                                   ![id].last_read = compiled_rules,
                                   ![id].result = scan_file_match(compiled_rules,
                                                                  yara_scans[id].target)]
    /\ UNCHANGED <<rules_dir, engines, beaconVars, hashVars, dirVars, pairVars>>

\* A caller invokes scan_process_memory on a constructed engine.
ScanProcessMemory ==
    /\ \E id \in YaraScanIds, e \in Engines, pid \in ScanPids :
          /\ yara_scans[id].pc = "idle"
          /\ engines[e].constructed
          /\ yara_scans' = [yara_scans EXCEPT
                               ![id].pc = "done", ![id].op = "scan_process_memory",
                               ![id].engine = e, ![id].target = pid,
                               ![id].first_read = engines[e].compiled_rules,
                               ![id].last_read = engines[e].compiled_rules,
                               ![id].result = scan_process_memory(engines[e].compiled_rules, pid)]
    /\ UNCHANGED <<rules_dir, engines, beaconVars, hashVars, dirVars, pairVars>>

\* The caller has its result and may call again.
YaraScanReturn ==
    /\ \E id \in YaraScanIds :
          /\ yara_scans[id].pc = "done"
          /\ yara_scans' = [yara_scans EXCEPT ![id] = IdleYaraScan]
    /\ UNCHANGED <<rules_dir, engines, beaconVars, hashVars, dirVars, pairVars>>

\* One engine, shared by the threads that scan and the thread that reloads.
YaraNext ==
    \/ NewEngine \/ LoadRules \/ CreateDefaultRules \/ CompileRules \/ ReloadRules
    \/ OperatorWrites \/ OperatorRemoves
    \/ YaraScanFile \/ YaraMatch \/ ScanProcessMemory \/ YaraScanReturn

\* One engine, its constructor and its reloads, and the operator.
YaraLoadNext ==
    \/ NewEngine \/ LoadRules \/ CreateDefaultRules \/ CompileRules \/ ReloadRules
    \/ OperatorWrites \/ OperatorRemoves

\* Engines constructed one after another against one directory.
YaraStartupNext ==
    \/ NewEngine \/ NextEngine \/ LoadRules \/ CreateDefaultRules \/ CompileRules
    \/ OperatorWrites \/ OperatorRemoves

----------------------------------------------------------------------------
(* api/auth.py: pairing codes and pair_device                              *)

\* generate_pairing_token(): the codes it returns, one per call.
TokenNames == <<"K7QX2M4P", "ZD3R8W5N">>

\* What a request may send as pairing_token and as device_hostname, and the
\* device_ip of each request.
RequestTokens == {"K7QX2M4P", " K7QX2M4P ", "NOSUCH99"}
Hostnames == {"ws-01", "ws-02"}
DeviceIp(r) == IF r = 1 THEN "10.0.0.11" ELSE "10.0.0.12"

\* str.strip() on the strings of the model.
Strip(str) ==
    CASE str = " K7QX2M4P " -> "K7QX2M4P"
      [] OTHER -> str

\* settings.pairing_token_expiry_minutes: one tick of utcnow.
pairing_token_expiry_minutes == 1

\* pair_device from the select of the token to the expiry test: the first
\* matching row with used_at NULL, or the HTTPException raised.
validate_token(rows, token, now) ==
    LET token_entries == {i \in 1..Len(rows) : rows[i].token = token}
        unused == {i \in token_entries : rows[i].used_at = Null}
        first == CHOOSE i \in unused : \A j \in unused : i <= j
    IN  IF unused = {}
        THEN [ status_code |-> 400, detail |-> "Invalid or already used pairing token",
               now |-> Null ]
        ELSE IF rows[first].expires_at < now
        THEN [status_code |-> 400, detail |-> "Pairing token has expired", now |-> At(now)]
        ELSE [status_code |-> 0, entry |-> first, now |-> At(now)]

\* An empty database, no request received.
PairInit ==
    /\ pairing_tokens = <<>>
    /\ devices = <<>>
    /\ pair_requests = [r \in PairRequests |-> NoPairRequest]
    /\ utcnow = 0
    /\ min_connections = DefaultMinConnections
    /\ max_jitter_percent = DefaultMaxJitter
    /\ connections = <<>>
    /\ detections = <<>>
    /\ analyzed = FALSE
    /\ vt_api_key = None
    /\ known_malware_hashes = {}
    /\ scans = [id \in ScanIds |-> IdleScan]
    /\ rules_dir = MissingDir
    /\ engines = [e \in Engines |-> NoEngine]
    /\ yara_scans = [id \in YaraScanIds |-> IdleYaraScan]
    /\ dir_scan = IdleDirScan

\* generate_pairing_code: a row with a new code and its expiry is committed.
GeneratePairingCode ==
    /\ Len(pairing_tokens) < MaxTokens
    /\ Len(pairing_tokens) < Len(TokenNames)
    /\ pairing_tokens' = Append(pairing_tokens,
                                [ token |-> TokenNames[Len(pairing_tokens) + 1],
                                  expires_at |-> utcnow + pairing_token_expiry_minutes,
                                  used_at |-> Null ])
    /\ UNCHANGED <<devices, pair_requests, utcnow, beaconVars, hashVars, yaraVars, dirVars>>

\* Time passes.
Tick ==
    /\ utcnow < MaxClock
    /\ utcnow' = utcnow + 1
    /\ UNCHANGED <<pairing_tokens, devices, pair_requests, beaconVars, hashVars, yaraVars,
                   dirVars>>

\* A POST /pair arrives: pair_device runs to its await of the token select.
PairDevice ==
    /\ \E r \in PairRequests, token \in RequestTokens, hostname \in Hostnames :
          /\ pair_requests[r].pc = "idle"
          /\ pair_requests' = [pair_requests EXCEPT
                                  ![r].pc = "select_token",
                                  ![r].pairing_token = token,
                                  ![r].device_hostname = hostname]
    /\ UNCHANGED <<pairing_tokens, devices, utcnow, beaconVars, hashVars, yaraVars, dirVars>>

\* The token select returns: the request is refused with 400, or goes on to
\* its await of the device select.
ValidateToken ==
    /\ \E r \in PairRequests :
          /\ pair_requests[r].pc = "select_token"
          /\ LET found == validate_token(pairing_tokens,
                                         Strip(pair_requests[r].pairing_token), utcnow)
             IN  pair_requests' =
                    IF found.status_code = 400
                    THEN [pair_requests EXCEPT ![r].pc = "responded",
                                               ![r].status_code = 400,
                                               ![r].detail = found.detail,
                                               ![r].now = found.now]
                    ELSE [pair_requests EXCEPT ![r].pc = "select_device",
                                               ![r].entry = found.entry,
                                               ![r].now = found.now]
    /\ UNCHANGED <<pairing_tokens, devices, utcnow, beaconVars, hashVars, yaraVars, dirVars>>

\* The device select returns: the session updates the device of that
\* hostname or adds one, and sets used_at on its token_entry; the request
\* goes on to its await of the commit.  Two rows with the hostname make
\* scalar_one_or_none raise.
RegisterDevice ==
    /\ \E r \in PairRequests :
          /\ pair_requests[r].pc = "select_device"
          /\ LET existing == {i \in 1..Len(devices) :
                                 devices[i].hostname = pair_requests[r].device_hostname}
             IN  pair_requests' =
                    IF Cardinality(existing) > 1
                    THEN [pair_requests EXCEPT ![r].pc = "responded",
                                               ![r].status_code = 500,
                                               ![r].detail = "MultipleResultsFound"]
                    ELSE IF existing # {}
                    THEN [pair_requests EXCEPT
                             ![r].pc = "commit",
                             ![r].device = [op |-> "update", row |-> CHOOSE i \in existing : TRUE],
                             ![r].used_at = At(utcnow)]
                    ELSE [pair_requests EXCEPT
                             ![r].pc = "commit",
                             ![r].device = [op |-> "insert", row |-> 0],
                             ![r].used_at = At(utcnow)]
    /\ UNCHANGED <<pairing_tokens, devices, utcnow, beaconVars, hashVars, yaraVars, dirVars>>

\* db.commit(): the device row and the token's used_at are written, and the
\* request is answered with its access token.
CommitPairing ==
    /\ \E r \in PairRequests :
          /\ pair_requests[r].pc = "commit"
          /\ LET req == pair_requests[r]
                 row == [ hostname |-> req.device_hostname, ip_address |-> DeviceIp(r),
                          last_seen |-> req.used_at ]
             IN  /\ devices' = IF req.device.op = "insert"
                                THEN Append(devices, row)
                                ELSE [devices EXCEPT ![req.device.row] = row]
                 /\ pairing_tokens' = [pairing_tokens EXCEPT ![req.entry].used_at = req.used_at]
          /\ pair_requests' = [pair_requests EXCEPT ![r].pc = "responded",
                                                    ![r].status_code = 200]
    /\ UNCHANGED <<utcnow, beaconVars, hashVars, yaraVars, dirVars>>

PairNext ==
    \/ GeneratePairingCode \/ Tick
    \/ PairDevice \/ ValidateToken \/ RegisterDevice \/ CommitPairing

----------------------------------------------------------------------------
(* Specifications: one per component, the other component at rest          *)

SpecBeacon == BeaconInit /\ [][BeaconNext]_vars

SpecRun == RunInit /\ [][RunNext]_vars

SpecHash == HashInit /\ [][HashNext]_vars

SpecDir == DirInit /\ [][DirNext]_vars

SpecPair == PairInit /\ [][PairNext]_vars

SpecYara == YaraInit /\ [][YaraNext]_vars

SpecYaraStartup == YaraInit /\ [][YaraStartupNext]_vars

\* load_rules is synchronous code: a call that has started runs each of its
\* steps.
SpecYaraLoad ==
    /\ YaraInit
    /\ [][YaraLoadNext]_vars
    /\ WF_vars(LoadRules)
    /\ WF_vars(CreateDefaultRules)
    /\ WF_vars(CompileRules)

----------------------------------------------------------------------------
(* Properties of BeaconingDetector, checked under SpecBeacon               *)

\* The records of a pair, counted on the input itself.
GroupSize(key) == Cardinality({i \in 1..Len(connections) : ConnKey(connections[i]) = key})

\* The findings analyze_connections returned for a pair.
FindingsOf(key) ==
    {i \in 1..Len(detections) :
        detections[i].dst_ip = key[1] /\ detections[i].process_name = key[2]}

\* The inter-arrival deltas of a pair's timestamps sorted ascending.
DeltasOf(key) == Intervals(Sorted(GroupTimestamps(connections, key)))

\* The deltas of the pair are all the same d.
AllDeltas(key, d) ==
    LET deltas == DeltasOf(key)
    IN  Len(deltas) >= 1 /\ \A i \in 1..Len(deltas) : deltas[i] = d

\* num/den < 1/(k*k), by the quotient and remainder of den by k*k.
FractionBelowInverseSquare(num, den, k) ==
    \/ den \div (k * k) > num
    \/ (den \div (k * k) = num /\ den % (k * k) > 0)

\* C1: a (dst_ip, process_name) group with fewer than min_connections
\* records produces no finding, whatever the timing of its records.
C1_SmallGroupNoFinding ==
    analyzed =>
        \A key \in ConnKeys :
            GroupSize(key) < min_connections => FindingsOf(key) = {}

\* A group one record short of the minimum whose timing is that of a
\* beacon has been analyzed.
C1_Witness ==
    /\ analyzed
    /\ \E key \in ConnKeys :
          /\ GroupSize(key) = min_connections - 1
          /\ GroupSize(key) >= 2
          /\ analyze_timing_pattern(GroupTimestamps(connections, key),
                                    max_jitter_percent).is_beaconing

\* The claim's criterion for a pair: with n deltas of sum S and sum of squares
\* Q, the mean is S/n and the population standard deviation over the mean is
\* sqrt(n*Q - S*S)/S; jitter < a/b and mean > 1.
C2_Criterion(key) ==
    LET deltas == DeltasOf(key)
        n == Len(deltas)
        S == SumSeq(deltas)
        Q == SumSq(deltas)
        a == max_jitter_percent.num
        b == max_jitter_percent.den
    IN  /\ n >= 1
        /\ S > n
        /\ a > 0
        /\ (n * Q - S * S) * b * b < a * a * S * S

C3_Severity(finding) ==
    LET num == finding.jitter_sq.num
        den == finding.jitter_sq.den
        count == GroupSize(<<finding.dst_ip, finding.process_name>>)
        J == IF FractionBelowInverseSquare(num, den, 100) THEN 3
             ELSE IF FractionBelowInverseSquare(num, den, 50) THEN 2
             ELSE IF FractionBelowInverseSquare(num, den, 20) THEN 1
             ELSE 0
        C == IF count > 50 THEN 2 ELSE IF count > 20 THEN 1 ELSE 0
    IN  IF 5 + J + C > 10 THEN 10 ELSE 5 + J + C

\* C3: the severity of every finding is min(10, 5 + J + C).
C3_SeverityFormula ==
    analyzed =>
        \A i \in 1..Len(detections) :
            detections[i].severity = C3_Severity(detections[i])

\* A finding of the middle jitter tier and the top count tier (5 + 2 + 2).
C3_Witness ==
    /\ analyzed
    /\ \E i \in 1..Len(detections) :
          /\ detections[i].connection_count > 50
          /\ ~FractionBelowInverseSquare(detections[i].jitter_sq.num,
                                         detections[i].jitter_sq.den, 100)
          /\ FractionBelowInverseSquare(detections[i].jitter_sq.num,
                                        detections[i].jitter_sq.den, 50)
          /\ detections[i].severity = 9

\* The fixture of C4: 20 connections of one pair, 60 seconds apart, analyzed
\* with the default settings.
C4_Fixture ==
    /\ analyzed
    /\ min_connections = DefaultMinConnections
    /\ max_jitter_percent = DefaultMaxJitter
    /\ Len(connections) = 20
    /\ \E key \in ConnKeys : GroupSize(key) = 20 /\ AllDeltas(key, 60)

\* C4 as stated: the fixture yields exactly one finding, of severity 9.
C4_AsStated ==
    C4_Fixture => (Len(detections) = 1 /\ detections[1].severity = 9)

\* C4 amended: the fixture yields exactly one finding, of severity 8
\* (5 + 3; a count of 20 is not > 20 and adds nothing).
C4_FixtureSeverityEight ==
    C4_Fixture => (Len(detections) = 1 /\ detections[1].severity = 8)

\* The fixture of C4 has been analyzed and its one finding returned.
C4_Witness == C4_Fixture /\ Len(detections) = 1

\* A pair has exactly min_connections records, all its deltas are equal, and
\* the jitter threshold is positive (as the default 0.05 is).
C5_ExactMinimumIdentical(key) ==
    /\ GroupSize(key) = min_connections
    /\ max_jitter_percent.num > 0
    /\ LET deltas == DeltasOf(key)
       IN  Len(deltas) >= 1 /\ \A i \in 1..Len(deltas) : deltas[i] = deltas[1]

C18_FindingHasDestinationAndCount ==
    analyzed =>
        \A i \in 1..Len(detections) :
            /\ detections[i].dst_ip # None
            /\ detections[i].connection_count
                  = GroupSize(<<detections[i].dst_ip, detections[i].process_name>>)
            /\ detections[i].connection_count >= min_connections

\* Reorderings of the input list: back to front, and the records at odd
\* positions before those at even positions.
Reverse(s) == [i \in 1..Len(s) |-> s[Len(s) + 1 - i]]
OddsFirst(s) ==
    LET odd == (Len(s) + 1) \div 2
    IN  [i \in 1..Len(s) |-> IF i <= odd THEN s[2 * i - 1] ELSE s[2 * (i - odd)]]
Reorderings(s) == {Reverse(s), OddsFirst(s)}

FindingSet(findings) == {findings[i] : i \in 1..Len(findings)}

\* C20: the set of findings of analyze_connections (destination, process,
\* count, average interval, jitter, severity) is the same for the input
\* list in another order.
C20_OrderOfInputIrrelevant ==
    analyzed =>
        \A reordered \in Reorderings(connections) :
            FindingSet(analyze_connections(reordered, min_connections, max_jitter_percent))
                = FindingSet(detections)

\* A finding for a group whose records did not arrive in time order.
C20_Witness ==
    /\ analyzed
    /\ \E d \in 1..Len(detections), i \in 1..Len(connections), j \in 1..Len(connections) :
          /\ i < j
          /\ connections[i].timestamp > connections[j].timestamp
          /\ ConnKey(connections[i]) = <<detections[d].dst_ip, detections[d].process_name>>
          /\ ConnKey(connections[j]) = <<detections[d].dst_ip, detections[d].process_name>>

----------------------------------------------------------------------------
(* Properties of BeaconingDetector, checked under SpecRun                  *)

\* The pairs that have a record in the window.
KeysIn(conns) == {ConnKey(conns[i]) : i \in 1..Len(conns)}

\* All records of the pair carry one timestamp: every interval is zero.
Still(key) ==
    \A i, j \in 1..Len(connections) :
        (ConnKey(connections[i]) = key /\ ConnKey(connections[j]) = key)
            => connections[i].timestamp = connections[j].timestamp

\* C27: a group whose records all carry the same timestamp (mean interval
\* zero) gets jitter 1.0 and no finding, for every threshold up to 1.0 and
\* whatever the number of its records.
C27_ZeroMeanNeverReported ==
    analyzed =>
        \A key \in KeysIn(connections) :
            (GroupSize(key) >= 2 /\ Still(key))
                => /\ FindingsOf(key) = {}
                   /\ analyze_timing_pattern(GroupTimestamps(connections, key),
                                             max_jitter_percent).jitter_sq = Rat(1, 1)

\* A burst of at least min_connections records with one timestamp has been
\* analyzed with the threshold 1.0.
C27_Witness ==
    /\ analyzed
    /\ max_jitter_percent = Rat(1, 1)
    /\ \E key \in KeysIn(connections) :
          /\ Still(key)
          /\ GroupSize(key) >= min_connections
          /\ GroupSize(key) >= DefaultMinConnections

\* The records of one pair, in input order.
OnlyOf(key) ==
    LET OfKey(conn) == ConnKey(conn) = key
    IN  SelectSeq(connections, OfKey)

----------------------------------------------------------------------------
(* Properties of HashScanner, checked under SpecHash                       *)

\* The SHA-256 digest of a readable file, from its bytes.
DigestOf(file_path) == Sha256Hex(FileContent(file_path))

\* A result that carries the verdict malicious = v.
HasVerdict(result, v) == "malicious" \in DOMAIN result /\ result.malicious = v

HasSource(result, src) == "source" \in DOMAIN result /\ result.source = src

\* The remote lookup failed: an exception (timeout, transport error), a body
\* that cannot be read, or a status other than 200 and 404.
RemoteFailed(answer) ==
    \/ "exception" \in DOMAIN answer
    \/ /\ "status" \in DOMAIN answer
       /\ \/ answer.status \notin {200, 404}
          \/ (answer.status = 200 /\ answer.body = "malformed")

\* C6: a scan_file call on a file whose digest is in known_malware_hashes
\* returns at once with malicious = TRUE and source local_db, and has made no
\* remote request, with or without a key.
C6_LocalHitNoRemote ==
    [][ \A id \in ScanIds :
          ( /\ scans[id].pc = "idle"
            /\ scans'[id].pc # "idle"
            /\ FileStatus(scans'[id].file_path) = "ok"
            /\ DigestOf(scans'[id].file_path) \in known_malware_hashes )
          => /\ scans'[id].pc = "done"
             /\ HasVerdict(scans'[id].result, TRUE)
             /\ HasSource(scans'[id].result, "local_db")
             /\ scans'[id].remote_calls = 0 ]_vars

\* A scanner with a key has returned a local_db verdict without a request.
C6_Witness ==
    /\ vt_api_key # None
    /\ \E id \in ScanIds :
          /\ scans[id].pc = "done"
          /\ DigestOf(scans[id].file_path) \in known_malware_hashes
          /\ HasSource(scans[id].result, "local_db")
          /\ scans[id].remote_calls = 0

\* C7 as stated: after a failed remote lookup the result is neither the clean
\* verdict nor a malicious verdict.
C7_FailureIsIndeterminate ==
    \A id \in ScanIds :
        (scans[id].pc = "done" /\ RemoteFailed(scans[id].answer))
        => /\ ~(HasVerdict(scans[id].result, FALSE) /\ HasSource(scans[id].result, "clean"))
           /\ ~HasVerdict(scans[id].result, TRUE)

\* What scan_file returns for the file with no key configured and the digest
\* not in the local set.
ResultWithoutCredential(file_path) == scan_file_begin(file_path, {}, None).result

\* C8 as stated: after a "not found" answer the result is malicious = FALSE,
\* source clean, and differs from the result of the same scan with no key.
C8_ConfirmedCleanIsDistinct ==
    \A id \in ScanIds :
        (scans[id].pc = "done" /\ DOMAIN scans[id].answer = {"status"}
                               /\ scans[id].answer.status = 404)
        => /\ HasVerdict(scans[id].result, FALSE)
           /\ HasSource(scans[id].result, "clean")
           /\ scans[id].result # ResultWithoutCredential(scans[id].file_path)

\* The engine count a "found" answer reports; a missing count reads as 0.
ReportedCount(answer) == IF "malicious" \in DOMAIN answer THEN answer.malicious ELSE 0

Found(answer) ==
    "status" \in DOMAIN answer /\ answer.status = 200 /\ answer.body # "malformed"

\* C9: after a "found" answer the verdict is malicious exactly when the
\* reported count is greater than 5.
C9_FoundThreshold ==
    \A id \in ScanIds :
        (scans[id].pc = "done" /\ Found(scans[id].answer))
        => HasVerdict(scans[id].result, ReportedCount(scans[id].answer) > 5)

\* One call answered with a count of 5 (not malicious), one with 6 (malicious).
C9_Witness ==
    \E id1, id2 \in ScanIds :
        /\ scans[id1].pc = "done" /\ Found(scans[id1].answer)
        /\ ReportedCount(scans[id1].answer) = 5
        /\ HasVerdict(scans[id1].result, FALSE)
        /\ scans[id2].pc = "done" /\ Found(scans[id2].answer)
        /\ ReportedCount(scans[id2].answer) = 6
        /\ HasVerdict(scans[id2].result, TRUE)

\* C10: a file that cannot be opened or read yields the error result, with no
\* verdict, no local lookup and no remote request; a readable file, the empty
\* one included, never yields the error result.
C10_UnreadableIsError ==
    \A id \in ScanIds :
        scans[id].pc # "idle" =>
            IF FileStatus(scans[id].file_path) = "ok"
            THEN "error" \notin DOMAIN scans[id].result
            ELSE /\ scans[id].pc = "done"
                 /\ DOMAIN scans[id].result = {"error"}
                 /\ scans[id].local_lookups = 0
                 /\ scans[id].remote_calls = 0

\* One call on a file whose read fails has returned the error; one call on
\* the empty file has returned a verdict.
C10_Witness ==
    \E id1, id2 \in ScanIds :
        /\ scans[id1].pc = "done"
        /\ FileStatus(scans[id1].file_path) = "read_error"
        /\ DOMAIN scans[id1].result = {"error"}
        /\ scans[id2].pc = "done"
        /\ FileContent(scans[id2].file_path) = ""
        /\ FileStatus(scans[id2].file_path) = "ok"
        /\ HasVerdict(scans[id2].result, FALSE)

----------------------------------------------------------------------------
(* Properties of YaraEngine, checked under SpecYara and SpecYaraStartup    *)

IsError(result) == "error" \in DOMAIN result

\* A scan_file call that has returned from its try block on a target the
\* matcher could read.
MatchedFile(id) ==
    /\ yara_scans[id].pc = "done"
    /\ yara_scans[id].op = "scan_file"
    /\ yara_scans[id].result # ErrorResult("No YARA rules loaded")
    /\ Readable(yara_scans[id].target)

ReportedSeverities(result) == {result.matches[i].severity : i \in 1..Len(result.matches)}

IsMaximum(n, set) == n \in set /\ \A m \in set : m <= n

\* C11: scan_file on a loaded rule set returns either no matches with
\* malicious false, or a non-empty list of matches with malicious true and
\* an overall severity equal to the maximum of the matched rules'
\* severities.
C11_VerdictFollowsMatches ==
    \A id \in YaraScanIds :
        MatchedFile(id) =>
            LET result == yara_scans[id].result
            IN  /\ ~IsError(result)
                /\ result.malicious <=> result.matches # <<>>
                /\ result.malicious =>
                       IsMaximum(result.severity, ReportedSeverities(result))

\* A step in which the call of caller id returns.
Returns(id) == yara_scans[id].pc # "done" /\ yara_scans'[id].pc = "done"

\* The rule set the returning call read, and what it was asked to scan.
RulesRead(id) == engines[yara_scans'[id].engine].compiled_rules
TargetOf(id) == yara_scans'[id].target

\* C12: when no rule set is loaded, or matching raises, scan_file and
\* scan_process_memory return an error result that has neither a malicious
\* field nor a matches list, never the result of a scan that matched
\* nothing.
C12_FailureIsAnErrorResult ==
    [][ \A id \in YaraScanIds :
           Returns(id) /\ (~RulesRead(id).loaded \/ ~Readable(TargetOf(id))) =>
               /\ IsError(yara_scans'[id].result)
               /\ DOMAIN yara_scans'[id].result \cap {"malicious", "matches"} = {}
               /\ yara_scans'[id].result # EmptyResult ]_vars

C12_Witness ==
    \E id \in YaraScanIds :
        /\ yara_scans[id].pc = "done"
        /\ yara_scans[id].op = "scan_process_memory"
        /\ ~engines[yara_scans[id].engine].compiled_rules.loaded
        /\ engines[yara_scans[id].engine].pc = "idle"
        /\ Readable(yara_scans[id].target)
        /\ IsError(yara_scans[id].result)

\* The compile that engine e is about to run raises: a listed file is gone
\* or holds text that does not compile.
CompileWillFail(e) ==
    /\ engines[e].pc = "compile"
    /\ \E name \in engines[e].rule_files :
          \A f \in rules_dir.files : f.name = name => ~f.content.ok

\* C13: a load_rules call whose compilation fails leaves the active rule
\* set exactly as it was, and an active set that is not null never becomes
\* null again.
C13_FailedLoadKeepsRules ==
    [][ \A e \in Engines :
           /\ engines[e].compiled_rules.loaded => engines'[e].compiled_rules.loaded
           /\ engines'[e].compiled_rules # engines[e].compiled_rules =>
                  engines[e].pc = "compile" /\ ~CompileWillFail(e) ]_vars

C13_Witness ==
    /\ engines[1].pc = "idle"
    /\ engines[1].log = "Error compiling YARA rules"
    /\ engines[1].compiled_rules.loaded

\* The rules that the text of a rule file compiles to, per file name.
TextRules(name) ==
    (CHOOSE f \in DefaultFiles \cup OperatorFiles : f.name = name /\ f.content.ok).content.rules

\* A rule set is whole when it is loaded and holds, for every file it was
\* compiled from, every rule of that file.
WholeSet(compiled_rules) ==
    /\ compiled_rules.loaded
    /\ \A i \in 1..Len(compiled_rules.rules) :
          \A j \in 1..Len(TextRules(compiled_rules.rules[i].file)) :
              \E k \in 1..Len(compiled_rules.rules) :
                  /\ compiled_rules.rules[k].file = compiled_rules.rules[i].file
                  /\ compiled_rules.rules[k].rule = TextRules(compiled_rules.rules[i].file)[j].rule

\* C14: under every interleaving of a reload with scan_file calls on the
\* same engine, a call that has passed the test of compiled_rules matches
\* against one whole rule set, the one it found active or one a reload has
\* installed since, and no call fails on a missing rule set because of the
\* reload.
C14_ScanSeesWholeRuleSet ==
    \A id \in YaraScanIds :
        /\ yara_scans[id].pc = "matching" =>
               WholeSet(engines[yara_scans[id].engine].compiled_rules)
        /\ yara_scans[id].pc = "done" /\ yara_scans[id].op = "scan_file"
              /\ yara_scans[id].first_read.loaded =>
               /\ WholeSet(yara_scans[id].last_read)
               /\ yara_scans[id].result
                      = scan_file_match(yara_scans[id].last_read, yara_scans[id].target)
               /\ yara_scans[id].result
                      # ErrorResult("'NoneType' object has no attribute 'match'")

\* A call that found one rule set active and matched against the next.
C14_Witness ==
    \E id \in YaraScanIds :
        /\ yara_scans[id].pc = "done"
        /\ yara_scans[id].op = "scan_file"
        /\ yara_scans[id].last_read # yara_scans[id].first_read
        /\ ~IsError(yara_scans[id].result)
        /\ yara_scans[id].result.malicious

\* Nobody but the engines has written into the rules directory, which
\* every behaviour starts without a rule file.
OnlyEnginesWrote == "operator" \notin rules_dir.writers

RuleNamesOf(compiled_rules) ==
    {compiled_rules.rules[i].rule : i \in 1..Len(compiled_rules.rules)}

\* C15: an engine created against an empty or missing rules directory has,
\* once its constructor returns, a non-empty active rule set and has
\* written the default rule files; an engine created next against the same
\* directory loads the same rule set and writes no defaults.
C15_DefaultsBootstrapOnce ==
    OnlyEnginesWrote =>
        /\ engines[1].constructed =>
               /\ engines[1].compiled_rules.loaded
               /\ RuleNamesOf(engines[1].compiled_rules)
                      = {"CobaltStrike_Beacon", "APT_Indicators", "Ransomware_Indicators"}
               /\ engines[1].wrote_defaults
               /\ DefaultFiles \subseteq rules_dir.files
        /\ \A e \in Engines \ {1} :
               engines[e].constructed =>
                   /\ engines[e].compiled_rules = engines[1].compiled_rules
                   /\ ~engines[e].wrote_defaults

C15_Witness ==
    /\ OnlyEnginesWrote
    /\ engines[1].constructed
    /\ engines[2].constructed
    /\ engines[2].compiled_rules.loaded

\* The rule files that engine e listed and that are in the directory when
\* its compile runs.
ListedAndPresent(e) == engines[e].listed \cap glob_yar(rules_dir)

HoldsRulesOf(compiled_rules, name) ==
    \A j \in 1..Len(TextRules(name)) :
        \E k \in 1..Len(compiled_rules.rules) :
            /\ compiled_rules.rules[k].file = name
            /\ compiled_rules.rules[k].rule = TextRules(name)[j].rule

\* C16: after a load_rules call whose compilation succeeds, the active rule
\* set holds the rules of every *.yar and *.yara file of the rules
\* directory; no rule file is left out.
C16_EveryRuleFileCompiled ==
    [][ \A e \in Engines :
           /\ engines[e].pc = "compile"
           /\ engines'[e].pc = "idle"
           /\ engines'[e].log = "Loaded YARA rule files"
           =>
               \A name \in ListedAndPresent(e) :
                   HoldsRulesOf(engines'[e].compiled_rules, name) ]_vars

\* C17: every severity scan_file reports, per matched rule and overall, is
\* an integer from 1 to 10, for every rule set the engine can load,
\* rules without a severity or with one outside 1..10 included.
C17_SeverityInRange ==
    \A id \in YaraScanIds :
        /\ yara_scans[id].pc = "done"
        /\ yara_scans[id].op = "scan_file"
        /\ ~IsError(yara_scans[id].result)
        /\ yara_scans[id].result.malicious
        => /\ yara_scans[id].result.severity \in 1..10
           /\ ReportedSeverities(yara_scans[id].result) \subseteq 1..10

----------------------------------------------------------------------------
(* Properties of HashScanner.scan_directory                                *)

\* The paths below a directory that lead to a file.
FilesUnder(root) == { e.path : e \in { f \in Entries : root \in f.inside /\ is_file(f.path) } }

\* The paths of the entries of a results list.
PathsOf(results) == { results[i].path : i \in 1..Len(results) }

\* The extension of a path equals an entry of the filter, letter case
\* ignored on both sides.
MatchesIgnoringCase(path, extensions) ==
    \E i \in 1..Len(extensions.list) :
        Lower(EntryAt(path).suffix) = Lower(extensions.list[i])

DirScanReturned == dir_scan.pc = "done" /\ exists(dir_scan.directory)

\* C21: when scan_directory returns from a call with a non-empty extension
\* filter, a file below the directory has been scanned if and only if its
\* extension equals an entry of the filter with letter case ignored on both
\* sides.
C21_FilterIgnoresCase ==
    (DirScanReturned /\ dir_scan.extensions.given /\ dir_scan.extensions.list # <<>>)
        => \A path \in FilesUnder(dir_scan.directory) :
              path \in PathsOf(dir_scan.results)
                  <=> MatchesIgnoringCase(path, dir_scan.extensions)

\* The regular files below a directory: links to files are not among them.
RegularFilesUnder(root) ==
    { e.path : e \in { f \in Entries : root \in f.inside /\ f.kind = "file" } }

\* A path passes the filter of a call: no filter was given, or its extension
\* is in it.
PassesFilter(path, extensions) ==
    (extensions.given /\ extensions.list # <<>>) => MatchesIgnoringCase(path, extensions)

\* The file an entry of the results is about.
FileOf(result) == Resolve(EntryAt(result.path)).path

\* C22: when scan_directory returns, its results hold exactly one entry for
\* every regular file below the directory that passes the extension filter,
\* under that file's path, and no file is in two entries.
C22_ExhaustiveAndOnce ==
    DirScanReturned
        => LET results == dir_scan.results
           IN  /\ PathsOf(results)
                    = { path \in RegularFilesUnder(dir_scan.directory) :
                            PassesFilter(path, dir_scan.extensions) }
               /\ \A i, j \in 1..Len(results) :
                     FileOf(results[i]) = FileOf(results[j]) => i = j

\* The scan_file call of the walk has ended in a failure: the file could not
\* be hashed, or its remote lookup returned an error.
HashingFailed(call) == call.pc = "done" /\ "error" \in DOMAIN call.result
LookupFailed(call) ==
    /\ call.pc = "done"
    /\ call.remote_calls = 1
    /\ "error" \in DOMAIN check_virustotal(vt_api_key, call.answer)

\* The files of a call that its filter test lets through.
Selected(directory, extensions) ==
    { path \in FilesUnder(directory) : ~Skipped(path, extensions) }

C24_ProcessVerdictHasSeverity ==
    \A id \in YaraScanIds :
        ( /\ yara_scans[id].pc = "done"
          /\ yara_scans[id].op = "scan_process_memory"
          /\ ~IsError(yara_scans[id].result)
          /\ yara_scans[id].result.matches # <<>> )
        => LET result == yara_scans[id].result
           IN  /\ result.malicious
               /\ "severity" \in DOMAIN result
               /\ IsMaximum(result.severity, ReportedSeverities(result))

----------------------------------------------------------------------------
(* Properties of concurrent scan_file calls                                *)

\* The callers whose HTTP request to the remote service is under way.
InFlight == { id \in ScanIds : scans[id].pc = "awaiting" }

\* C25: the remote requests in flight stay under a cap however many callers
\* scan at once: the callers of the model never all have a request under
\* way at the same moment.
C25_InFlightIsCapped == Cardinality(InFlight) < Cardinality(ScanIds)

\* The call of caller id starts in this step.
Starts(id) == scans[id].pc = "idle" /\ scans'[id].pc # "idle"

\* The file of the starting call was hashed and its digest is not in the
\* local set.
LocalMiss(id) ==
    /\ FileStatus(scans'[id].file_path) = "ok"
    /\ DigestOf(scans'[id].file_path) \notin known_malware_hashes

\* C26: scan_file looks in the local set first and asks the remote service
\* at most once per call, only after a local miss and only with a key
\* configured; without a key no request is made and a local miss returns
\* malicious = FALSE with source clean.
C26_LocalThenRemoteOnce ==
    [][ \A id \in ScanIds :
          /\ scans'[id].remote_calls <= 1
          /\ scans'[id].remote_calls <= scans'[id].local_lookups
          /\ scans[id].pc = "awaiting" => scans'[id].remote_calls = 1
          /\ Starts(id) =>
                /\ scans'[id].remote_calls = 1 <=> (LocalMiss(id) /\ vt_api_key # None)
                /\ (LocalMiss(id) /\ vt_api_key = None) =>
                      /\ scans'[id].pc = "done"
                      /\ HasVerdict(scans'[id].result, FALSE)
                      /\ HasSource(scans'[id].result, "clean") ]_vars

\* A scanner without a key has returned the clean verdict after its local
\* lookup, with no request made.
C26_Witness ==
    \E id \in ScanIds :
        /\ scans[id].pc = "done"
        /\ vt_api_key = None
        /\ FileStatus(scans[id].file_path) = "ok"
        /\ scans[id].local_lookups = 1
        /\ scans[id].remote_calls = 0
        /\ HasSource(scans[id].result, "clean")

----------------------------------------------------------------------------
(* Properties of YaraEngine.load_rules, checked under SpecYaraLoad         *)

\* A load_rules call of the engine is running.
InLoadRules(e) == engines[e].pc \in {"load_rules", "create_default_rules", "compile"}

\* C29: every load_rules call returns, and it writes the default rules at
\* most once: load_rules is entered again through _create_default_rules at
\* most one level deep, and the inner call compiles what was written.
C29_LoadRulesTerminates ==
    /\ [](\A e \in Engines :
             /\ engines[e].depth <= 1
             /\ (engines[e].depth = 1 /\ engines[e].pc # "load_rules")
                   => engines[e].pc = "compile")
    /\ \A e \in Engines : InLoadRules(e) ~> engines[e].pc = "idle"

\* The inner load_rules, entered after the defaults were written, is about
\* to compile them.
C29_Witness ==
    \E e \in Engines :
        /\ engines[e].depth = 1
        /\ engines[e].pc = "compile"
        /\ DefaultRuleNames \subseteq engines[e].listed

----------------------------------------------------------------------------
(* Properties of pair_device, checked under SpecPair                       *)

\* The request has been answered with an access token.
Paired(r) == pair_requests[r].pc = "responded" /\ pair_requests[r].status_code = 200

\* The request has been refused.
Refused(r) == pair_requests[r].pc = "responded" /\ pair_requests[r].status_code = 400

\* The code the request sent is the code of no row.
UnknownToken(r) ==
    \A i \in 1..Len(pairing_tokens) :
        pairing_tokens[i].token # Strip(pair_requests[r].pairing_token)

\* The code the request sent had expired when the request tested it.
ExpiredToken(r) ==
    /\ pair_requests[r].now # Null
    /\ \E i \in 1..Len(pairing_tokens) :
          /\ pairing_tokens[i].token = Strip(pair_requests[r].pairing_token)
          /\ pairing_tokens[i].expires_at < pair_requests[r].now[1]

\* C30: a pairing code pairs once: of the requests that send one code at
\* most one is answered with an access token, whatever the order of their
\* steps; and a request whose code is unknown or has expired is refused and
\* writes no device.
C30_TokenPairsOnce ==
    /\ \A r1, r2 \in PairRequests :
          (Paired(r1) /\ Paired(r2)
             /\ Strip(pair_requests[r1].pairing_token) = Strip(pair_requests[r2].pairing_token))
          => r1 = r2
    /\ \A r \in PairRequests :
          (pair_requests[r].pc = "responded" /\ (UnknownToken(r) \/ ExpiredToken(r)))
          => Refused(r) /\ pair_requests[r].device = NoDeviceChange

=============================================================================
